---- MODULE Spec2Model ----
(***************************************************************************)
(* Model of src/deputes_downloader.py: the DeputesDownloader class and     *)
(* its main() driver.  One run of main() fetches four sources one after    *)
(* the other, logs a summary, compares the sources, builds the unified     *)
(* dataset and prints a final report.                                      *)
(*                                                                         *)
(* Values.  An Optional[...] value is a sequence of length 0 (None) or 1.  *)
(* A JSON object and a pandas row are functions from keys to values, so    *)
(* "k in obj" is  k \in DOMAIN obj.  A DataFrame is a record of its rows   *)
(* and its column set.  A file on disk is a record of what was written.    *)
(***************************************************************************)
EXTENDS Integers, Sequences, FiniteSets, TLC

\* Longest 'deputes' collection a response carries.
MaxLen == 2

None == << >>
Some(v) == << v >>
IsNone(o) == Len(o) = 0
Get(o) == o[1]

(***************************************************************************)
(* The sources, in the order download_all_sources fetches them.            *)
(***************************************************************************)
Registry == << "nosdeputes_csv", "nosdeputes_json", "datan", "assemblee_officiel" >>

Sources == { Registry[i] : i \in 1..Len(Registry) }

\* PathOf with the file name of nosdeputes_csv pasted into the method of
\* assemblee_officiel.
PathOfShared(source) ==
    CASE source = "nosdeputes_csv"     -> "deputes_nosdeputes.csv"
      [] source = "nosdeputes_json"    -> "deputes_nosdeputes.json"
      [] source = "datan"              -> "deputes_datan_enrichi.csv"
      [] source = "assemblee_officiel" -> "deputes_nosdeputes.csv"

\* Artifact written for each source, and the unified artifact.
PathOf(source) ==
    CASE source = "nosdeputes_csv"     -> "deputes_nosdeputes.csv"
      [] source = "nosdeputes_json"    -> "deputes_nosdeputes.json"
      [] source = "datan"              -> "deputes_datan_enrichi.csv"
      [] source = "assemblee_officiel" -> "deputes_assemblee_officiel.csv"

UnifiedPath == "deputes_unifie.csv"

Paths == { PathOf(s) : s \in Sources } \cup { UnifiedPath }

(***************************************************************************)
(* What the remote endpoint can answer.                                    *)
(***************************************************************************)
\* Two nested per-deputy objects with different key sets.
Depute1 == [nom |-> "Macron", parti_ratt_financier |-> "RE"]
Depute2 == [nom |-> "Dupont"]

\* Entries of the 'deputes' collection: two wrappers and one entry that has
\* no 'depute' key.
Wrapper1 == [depute |-> Depute1]
Wrapper2 == [depute |-> Depute2]
BadEntry == [autre |-> Depute2]

Entries == { Wrapper1, Wrapper2, BadEntry }

\* The endpoint lists every deputy once: a collection repeats no entry.
Collections ==
    { c \in UNION { [1..n -> Entries] : n \in 0..MaxLen } :
        \A i, j \in DOMAIN c : c[i] = c[j] => i = j }

\* Parsed JSON documents: with the 'deputes' key, or without it.
NoKeyDoc == [erreur |-> << >>]

Documents == { [deputes |-> c] : c \in Collections } \cup { NoKeyDoc }

\* A response: the request raised, the status was an error, the body was
\* not JSON, or the body parsed into a document.
Responses ==
    { [kind |-> k, data |-> NoKeyDoc] : k \in { "network_error", "http_error", "malformed_json" } }
  \cup
    { [kind |-> "ok", data |-> d] : d \in Documents }

\* What a write to the output directory can do: succeed, fail before the
\* file is touched, or fail after the file was opened (and so truncated).
WriteOutcomes == { "ok", "error_unchanged", "error_truncated" }

(***************************************************************************)
(* pandas                                                                  *)
(***************************************************************************)
\* pd.DataFrame(list of dicts): one row per dict, columns = the keys met.
DataFrame(list) ==
    [rows    |-> list,
     columns |-> UNION { DOMAIN list[i] : i \in 1..Len(list) }]

\* len(df)
LenDf(df) == Len(df.rows)

\* df.copy()
Copy(df) == [rows |-> df.rows, columns |-> df.columns]

\* The CSV text of a DataFrame: a header of the columns and one line per
\* row; a cell is the stringified value, empty when the row lacks the field.
CsvOf(df) ==
    [complete |-> TRUE,
     header   |-> df.columns,
     lines    |-> [i \in 1..Len(df.rows) |->
                    [c \in df.columns |->
                        IF c \in DOMAIN df.rows[i] THEN Some(df.rows[i][c]) ELSE None]]]

\* A file that was opened for writing and never filled.
TruncatedFile == [complete |-> FALSE, header |-> {}, lines |-> << >>]

\* The text json.dump writes for a document.
JsonOf(data) == [complete |-> TRUE, data |-> data]

TruncatedJson == [complete |-> FALSE, data |-> << >>]

\* A write of `content` to `path` with outcome w: the disk after it, and
\* whether it raised.
WriteFile(d, path, content, truncated, w) ==
    CASE w = "ok"              -> [disk |-> [d EXCEPT ![path] = Some(content)], raised |-> FALSE]
      [] w = "error_unchanged" -> [disk |-> d, raised |-> TRUE]
      [] w = "error_truncated" -> [disk |-> [d EXCEPT ![path] = Some(truncated)], raised |-> TRUE]

\* df.to_csv(path, index=False, encoding='utf-8-sig')
to_csv(d, df, path, w) == WriteFile(d, path, CsvOf(df), TruncatedFile, w)

(***************************************************************************)
(* Logging and dictionaries                                                *)
(***************************************************************************)
\* One logger call: its level, the source it is about, its message and the
\* count it prints (0 when it prints none).
LogEntry(level, source, msg, n) == [level |-> level, source |-> source, msg |-> msg, n |-> n]

\* results.get(key)
DictGet(dict, key) == IF key \in DOMAIN dict THEN dict[key] ELSE None

\* What a call of a method leaves behind: its return value, the disk, the
\* lines it logged, whether an exception left it, and what became of the
\* write it attempted ("none" when it attempted none).
Outcome(ret, d, lg, exc, wrote) ==
    [ret |-> ret, disk |-> d, log |-> lg, exc |-> exc, wrote |-> wrote]

(***************************************************************************)
(* The request and the parse, common to the three download methods:        *)
(* session.get raises on a network error, raise_for_status on an error     *)
(* status, response.json() on a body that is not JSON.                     *)
(***************************************************************************)
RequestRaises(resp) == resp.kind \in { "network_error", "http_error", "malformed_json" }

\* for depute_info in data['deputes']: deputes_data.append(depute_info['depute'])
\* Raises KeyError at the first entry without the key; `list` is what the
\* loop had appended by then.
RECURSIVE ExtractDeputes(_, _, _)
ExtractDeputes(coll, i, acc) ==
    IF i > Len(coll)
    THEN [raised |-> FALSE, list |-> acc]
    ELSE IF "depute" \notin DOMAIN coll[i]
         THEN [raised |-> TRUE, list |-> acc]
         ELSE ExtractDeputes(coll, i + 1, Append(acc, coll[i]["depute"]))

(***************************************************************************)
(* download_from_nosdeputes(format_type), for the two formats              *)
(* download_all_sources asks for.  NosdeputesTry is the body of the try    *)
(* statement; the method catches whatever it raises.                       *)
(***************************************************************************)
NosdeputesTry(d, format_type, resp, w) ==
    IF RequestRaises(resp)
    THEN Outcome(None, d, << >>, TRUE, "none")
    ELSE LET data == resp.data IN
         IF format_type = "csv"
         THEN IF "deputes" \in DOMAIN data
              THEN LET ex == ExtractDeputes(data["deputes"], 1, << >>) IN
                   IF ex.raised
                   THEN Outcome(None, d, << >>, TRUE, "none")
                   ELSE LET df == DataFrame(ex.list)
                            wr == to_csv(d, df, PathOf("nosdeputes_csv"), w)
                        IN  IF wr.raised
                            THEN Outcome(None, wr.disk, << >>, TRUE, w)
                            ELSE Outcome(Some(df), wr.disk,
                                         << LogEntry("INFO", "nosdeputes_csv", "Donnees sauvees", 0) >>,
                                         FALSE, w)
              ELSE Outcome(None, d,
                           << LogEntry("WARNING", "nosdeputes_csv", "Aucune donnee de deputes trouvee", 0) >>,
                           FALSE, "none")
         ELSE \* format_type = "json"
              LET wr == WriteFile(d, PathOf("nosdeputes_json"), JsonOf(data), TruncatedJson, w) IN
              IF wr.raised
              THEN Outcome(None, wr.disk, << >>, TRUE, w)
              ELSE IF "deputes" \in DOMAIN data
                   THEN LET ex == ExtractDeputes(data["deputes"], 1, << >>) IN
                        IF ex.raised
                        THEN Outcome(None, wr.disk, << >>, TRUE, w)
                        ELSE Outcome(Some(DataFrame(ex.list)), wr.disk, << >>, FALSE, w)
                   ELSE Outcome(None, wr.disk, << >>, FALSE, w)

download_from_nosdeputes(d, format_type, resp, w) ==
    LET source == IF format_type = "csv" THEN "nosdeputes_csv" ELSE "nosdeputes_json"
        start  == << LogEntry("INFO", source, "Telechargement depuis NosDeputes.fr", 0) >>
        try    == NosdeputesTry(d, format_type, resp, w)
    IN  IF try.exc
        THEN Outcome(None, try.disk,
                     start \o try.log \o << LogEntry("ERROR", source, "Erreur lors du telechargement NosDeputes", 0) >>,
                     FALSE, try.wrote)
        ELSE Outcome(try.ret, try.disk, start \o try.log, FALSE, try.wrote)

(***************************************************************************)
(* download_from_datan                                                     *)
(***************************************************************************)
\* DatanTry writing its DataFrame to the file of nosdeputes_csv.
DatanTryWrongFile(d, resp, w) ==
    IF RequestRaises(resp)
    THEN Outcome(None, d, << >>, TRUE, "none")
    ELSE LET data == resp.data IN
         IF "deputes" \in DOMAIN data
         THEN LET df == DataFrame(data["deputes"])
                  wr == to_csv(d, df, "deputes_nosdeputes.csv", w)
              IN  IF wr.raised
                  THEN Outcome(None, wr.disk, << >>, TRUE, w)
                  ELSE Outcome(Some(df), wr.disk,
                               << LogEntry("INFO", "datan", "Donnees enrichies sauvees", 0) >>,
                               FALSE, w)
         ELSE Outcome(None, d,
                      << LogEntry("WARNING", "datan", "Aucune donnee enrichie trouvee", 0) >>,
                      FALSE, "none")

DatanTry(d, resp, w) ==
    IF RequestRaises(resp)
    THEN Outcome(None, d, << >>, TRUE, "none")
    ELSE LET data == resp.data IN
         IF "deputes" \in DOMAIN data
         THEN LET df == DataFrame(data["deputes"])
                  wr == to_csv(d, df, PathOf("datan"), w)
              IN  IF wr.raised
                  THEN Outcome(None, wr.disk, << >>, TRUE, w)
                  ELSE Outcome(Some(df), wr.disk,
                               << LogEntry("INFO", "datan", "Donnees enrichies sauvees", 0) >>,
                               FALSE, w)
         ELSE Outcome(None, d,
                      << LogEntry("WARNING", "datan", "Aucune donnee enrichie trouvee", 0) >>,
                      FALSE, "none")

download_from_datan(d, resp, w) ==
    LET start == << LogEntry("INFO", "datan", "Telechargement des donnees enrichies", 0) >>
        try   == DatanTry(d, resp, w)
    IN  IF try.exc
        THEN Outcome(None, try.disk,
                     start \o try.log \o << LogEntry("ERROR", "datan", "Erreur lors du telechargement des donnees enrichies", 0) >>,
                     FALSE, try.wrote)
        ELSE Outcome(try.ret, try.disk, start \o try.log, FALSE, try.wrote)

(***************************************************************************)
(* download_from_assemblee_officiel.  urls_to_try holds one URL, of        *)
(* nosdeputes.fr, so the loop body runs once, in its first branch.         *)
(***************************************************************************)
AssembleeTry(d, resp, w) ==
    IF RequestRaises(resp)
    THEN Outcome(None, d, << >>, TRUE, "none")
    ELSE LET data == resp.data IN
         IF "deputes" \in DOMAIN data
         THEN LET ex == ExtractDeputes(data["deputes"], 1, << >>) IN
              IF ex.raised
              THEN Outcome(None, d, << >>, TRUE, "none")
              ELSE LET df == DataFrame(ex.list)
                       wr == to_csv(d, df, PathOf("assemblee_officiel"), w)
                   IN  IF wr.raised
                       THEN Outcome(None, wr.disk, << >>, TRUE, w)
                       ELSE Outcome(Some(df), wr.disk,
                                    << LogEntry("INFO", "assemblee_officiel", "Donnees officielles sauvees", 0) >>,
                                    FALSE, w)
         ELSE Outcome(None, d, << >>, FALSE, "none")

download_from_assemblee_officiel(d, resp, w) ==
    LET start == << LogEntry("INFO", "assemblee_officiel", "Telechargement depuis l'Assemblee nationale", 0),
                    LogEntry("INFO", "assemblee_officiel", "Essai de telechargement", 0) >>
        try   == AssembleeTry(d, resp, w)
        after == << LogEntry("WARNING", "assemblee_officiel", "Sources officielles temporairement indisponibles", 0) >>
    IN  IF try.exc
        THEN Outcome(None, try.disk,
                     start \o try.log \o << LogEntry("WARNING", "assemblee_officiel", "Echec pour l'URL", 0) >> \o after,
                     FALSE, try.wrote)
        ELSE IF IsNone(try.ret)
             THEN Outcome(None, try.disk, start \o try.log \o after, FALSE, try.wrote)
             ELSE Outcome(try.ret, try.disk, start \o try.log, FALSE, try.wrote)

\* The call download_all_sources makes for a source.
Download(source, d, resp, w) ==
    CASE source = "nosdeputes_csv"     -> download_from_nosdeputes(d, "csv", resp, w)
      [] source = "nosdeputes_json"    -> download_from_nosdeputes(d, "json", resp, w)
      [] source = "datan"              -> download_from_datan(d, resp, w)
      [] source = "assemblee_officiel" -> download_from_assemblee_officiel(d, resp, w)

(***************************************************************************)
(* download_all_sources                                                    *)
(***************************************************************************)
\* StoreResult as  results = {source: ret} : the earlier entries are lost.
StoreResultAlone(dict, source, ret) == [k \in { source } |-> ret]

\* results[source] = ret
StoreResult(dict, source, ret) ==
    [k \in DOMAIN dict \cup { source } |-> IF k = source THEN ret ELSE dict[k]]

\* Position of a source in the sequence of download calls.
IndexOf(source) == CHOOSE i \in 1..Len(Registry) : Registry[i] = source

\* AfterFetch in a loop that starts over after the last source.
AfterFetchAgain(source) ==
    IF IndexOf(source) < Len(Registry) THEN Registry[IndexOf(source) + 1] ELSE Registry[1]

\* Where download_all_sources goes after the call for a source: the next
\* call, or the summary loop after the last.
AfterFetch(source) ==
    IF IndexOf(source) < Len(Registry) THEN Registry[IndexOf(source) + 1] ELSE "resume"

\* The summary loop: one line per entry of results, in insertion order.
SummaryLog(dict) ==
    LET keys == SelectSeq(Registry, LAMBDA s : s \in DOMAIN dict) IN
    [i \in 1..Len(keys) |->
        IF ~IsNone(dict[keys[i]])
        THEN LogEntry("INFO", keys[i], "deputes telecharges", LenDf(Get(dict[keys[i]])))
        ELSE LogEntry("WARNING", keys[i], "echec du telechargement", 0)]

(***************************************************************************)
(* compare_sources: logs the size of every DataFrame that is not None.     *)
(***************************************************************************)
RECURSIVE CompareLog(_, _)
CompareLog(dict, keys) ==
    IF keys = << >>
    THEN << >>
    ELSE LET df == Get(dict[Head(keys)])
             nc == Cardinality(df.columns)
         IN  << LogEntry("INFO", Head(keys), "Nombre de deputes", LenDf(df)),
                LogEntry("INFO", Head(keys), "Colonnes disponibles", nc),
                LogEntry("INFO", Head(keys), "Colonnes", IF nc < 5 THEN nc ELSE 5) >>
             \o CompareLog(dict, Tail(keys))

compare_sources(dict) ==
    CompareLog(dict, SelectSeq(Registry, LAMBDA s : s \in DOMAIN dict /\ ~IsNone(dict[s])))

(***************************************************************************)
(* create_unified_dataset: no try statement, so a failed write leaves the  *)
(* method as an exception.                                                 *)
(***************************************************************************)
\* create_unified_dataset without its test for None: .copy() is called on
\* whatever results.get returns, and raises on None.
create_unified_dataset_unguarded(d, dict, w) ==
    LET start == << LogEntry("INFO", "unifie", "Creation d'un dataset unifie", 0) >> IN
    IF IsNone(DictGet(dict, "nosdeputes_csv"))
    THEN Outcome(None, d, start, TRUE, "none")
    ELSE LET main_df == Copy(Get(dict["nosdeputes_csv"]))
             wr      == to_csv(d, main_df, UnifiedPath, w)
         IN  IF wr.raised
             THEN Outcome(None, wr.disk, start, TRUE, w)
             ELSE Outcome(Some(main_df), wr.disk, start, FALSE, w)

create_unified_dataset(d, dict, w) ==
    LET start == << LogEntry("INFO", "unifie", "Creation d'un dataset unifie", 0) >> IN
    IF ~IsNone(DictGet(dict, "nosdeputes_csv"))
    THEN LET main_df == Copy(Get(dict["nosdeputes_csv"]))
             lg1     == start \o << LogEntry("INFO", "unifie", "Utilisation de NosDeputes.fr comme source principale", 0) >>
             lg2     == IF ~IsNone(DictGet(dict, "datan"))
                        THEN lg1 \o << LogEntry("INFO", "unifie", "Tentative d'enrichissement avec les donnees Datan", 0) >>
                        ELSE lg1
             wr      == to_csv(d, main_df, UnifiedPath, w)
         IN  IF wr.raised
             THEN Outcome(None, wr.disk, lg2, TRUE, w)
             ELSE Outcome(Some(main_df), wr.disk,
                          lg2 \o << LogEntry("INFO", "unifie", "Dataset unifie sauve", 0) >>,
                          FALSE, w)
    ELSE Outcome(None, d, start, FALSE, "none")

(***************************************************************************)
(* main: what it prints once create_unified_dataset has returned.          *)
(***************************************************************************)
Printed(msg, n) == [msg |-> msg, n |-> n]

FinalReport(unified_df) ==
    IF ~IsNone(unified_df)
    THEN << Printed("Telechargement termine", 0),
            Printed("Fichiers sauves dans le dossier", 0),
            Printed("Nombre total de deputes", LenDf(Get(unified_df))),
            Printed("Apercu des donnees", 0) >>
    ELSE << Printed("Echec du telechargement depuis toutes les sources", 0) >>

(***************************************************************************)
(* State                                                                   *)
(***************************************************************************)
VARIABLES
    pc,        \* the statement main() is at
    results,   \* the dict download_all_sources fills and returns
    disk,      \* the files of output_dir
    log,       \* the lines logged so far
    stdout,    \* the lines printed so far
    unified,   \* what create_unified_dataset returned
    requests,  \* the sources whose endpoint was requested, in order
    call       \* the download call that returned last: its source and what
               \* the endpoint and the disk did during it

vars == << pc, results, disk, log, stdout, unified, requests, call >>

\* The state of a run of src/deputes_analysis_example.py, which shares pc,
\* disk and stdout with the above.
VARIABLES
    main_df,   \* the DataFrame its main() holds
    loaded,    \* that DataFrame as read_csv returned it
    search,    \* the search_deputies call: its term and what it returned
    parties,   \* the parties main() has still to export
    export     \* the last export_by_party call: its party and what it returned

analysis == << main_df, loaded, search, parties, export >>

downloader == << results, log, unified, requests, call >>

\* The output directory is created if missing and may hold the files of an
\* earlier run.
StaleCsv == [complete |-> TRUE, header |-> { "ancien" }, lines |-> << >>]
StaleJson == [complete |-> TRUE, data |-> [ancien |-> << >>]]

EmptyDir == [p \in Paths |-> None]
UsedDir ==
    [p \in Paths |-> IF p = PathOf("nosdeputes_json") THEN Some(StaleJson) ELSE Some(StaleCsv)]

InitialDisks == { EmptyDir, UsedDir }

Init ==
    /\ pc = "start"
    /\ results = << >>
    /\ disk \in InitialDisks
    /\ log = << >>
    /\ stdout = << >>
    /\ unified = None
    /\ requests = << >>
    /\ call = None
    /\ main_df = None
    /\ loaded = None
    /\ search = None
    /\ parties = << >>
    /\ export = None

\* main() up to the first download call.
Start ==
    /\ pc = "start"
    /\ pc' = Registry[1]
    /\ stdout' = stdout \o << Printed("Telechargeur de la liste des deputes francais", 0) >>
    /\ log' = log \o << LogEntry("INFO", "toutes", "Debut du telechargement depuis toutes les sources", 0) >>
    /\ results' = << >>
    /\ UNCHANGED << disk, unified, requests, call >>
    /\ UNCHANGED analysis

\* results[source] = self.download_from_...()
Fetch(source) ==
    /\ pc = source
    /\ \E resp \in Responses, w \in WriteOutcomes :
          LET o == Download(source, disk, resp, w) IN
          /\ requests' = Append(requests, source)
          /\ call' = Some([source |-> source, response |-> resp, write |-> o.wrote])
          /\ disk' = o.disk
          /\ log' = log \o o.log
          /\ IF o.exc
             THEN /\ pc' = "crashed"
                  /\ UNCHANGED results
             ELSE /\ pc' = AfterFetch(source)
                  /\ results' = StoreResult(results, source, o.ret)
    /\ UNCHANGED << stdout, unified >>
    /\ UNCHANGED analysis

FetchNosdeputesCsv == Fetch("nosdeputes_csv")
FetchNosdeputesJson == Fetch("nosdeputes_json")
FetchDatan == Fetch("datan")
FetchAssembleeOfficiel == Fetch("assemblee_officiel")

\* The summary loop of download_all_sources and its return.
Resume ==
    /\ pc = "resume"
    /\ pc' = "compare"
    /\ log' = log \o << LogEntry("INFO", "toutes", "Resume des telechargements", 0) >> \o SummaryLog(results)
    /\ call' = None
    /\ UNCHANGED << results, disk, stdout, unified, requests >>
    /\ UNCHANGED analysis

CompareSources ==
    /\ pc = "compare"
    /\ pc' = "unify"
    /\ log' = log \o << LogEntry("INFO", "toutes", "Comparaison des sources", 0) >> \o compare_sources(results)
    /\ UNCHANGED << results, disk, stdout, unified, requests, call >>
    /\ UNCHANGED analysis

CreateUnified ==
    /\ pc = "unify"
    /\ \E w \in WriteOutcomes :
          LET o == create_unified_dataset(disk, results, w) IN
          /\ disk' = o.disk
          /\ log' = log \o o.log
          /\ IF o.exc
             THEN pc' = "crashed" /\ UNCHANGED unified
             ELSE pc' = "report" /\ unified' = o.ret
    /\ UNCHANGED << results, stdout, requests, call >>
    /\ UNCHANGED analysis

Report ==
    /\ pc = "report"
    /\ pc' = "done"
    /\ stdout' = stdout \o FinalReport(unified)
    /\ UNCHANGED << results, disk, log, unified, requests, call >>
    /\ UNCHANGED analysis

Next ==
    \/ Start
    \/ FetchNosdeputesCsv
    \/ FetchNosdeputesJson
    \/ FetchDatan
    \/ FetchAssembleeOfficiel
    \/ Resume
    \/ CompareSources
    \/ CreateUnified
    \/ Report

Spec == Init /\ [][Next]_vars

(***************************************************************************)
(* src/deputes_analysis_example.py.  Text is a sequence of characters here *)
(* so that a search can look inside it.                                    *)
(***************************************************************************)
\* Most rows of the CSV file that is analysed.
MaxRows == 2

\* Longest search term.
MaxTerm == 2

UpperCase == << "A", "B", "C", "D", "E", "F", "G", "H", "I", "J", "K", "L", "M",
                "N", "O", "P", "Q", "R", "S", "T", "U", "V", "W", "X", "Y", "Z" >>
LowerCase == << "a", "b", "c", "d", "e", "f", "g", "h", "i", "j", "k", "l", "m",
                "n", "o", "p", "q", "r", "s", "t", "u", "v", "w", "x", "y", "z" >>
Digits == { "0", "1", "2", "3", "4", "5", "6", "7", "8", "9" }

IsUpper(c) == \E i \in DOMAIN UpperCase : UpperCase[i] = c
IsDigit(c) == c \in Digits

\* str.lower(), one character and a whole text.
LowerChar(c) ==
    IF IsUpper(c) THEN LowerCase[CHOOSE i \in DOMAIN UpperCase : UpperCase[i] = c] ELSE c
Lower(text) == [i \in DOMAIN text |-> LowerChar(text[i])]

\* Rows of the file: one with every field, one without nom_circo whose name
\* holds a dot, one without nom, one with a name only.
Row1 == [nom |-> << "M", "a" >>, parti_ratt_financier |-> << "R" >>, nom_circo |-> << "P", "7", "5" >>]
Row2 == [nom |-> << "a", "." >>, parti_ratt_financier |-> << "r", "n" >>]
Row3 == [parti_ratt_financier |-> << "R" >>]
Row4 == [nom |-> << "A", "m" >>]

Rows == { Row1, Row2, Row3, Row4 }

\* The DataFrames the download scripts can have saved.
Frames == { DataFrame(list) : list \in UNION { [1..n -> Rows] : n \in 0..MaxRows } }

\* The characters of a search term: a letter in each case, and two
\* characters that mean something in a regular expression.
TermChars == { "m", "A", ".", "(" }

Terms == UNION { [1..n -> TermChars] : n \in 0..MaxTerm }

(***************************************************************************)
(* Series.str.contains(pat, case=False, na=False): pat is compiled as a    *)
(* regular expression (regex=True is the default) and searched in every    *)
(* value, ignoring case.  Of the regular expressions, the literal          *)
(* characters, the dot and the unbalanced parenthesis are modelled.        *)
(***************************************************************************)
\* re.compile(pat) raises re.error on an unclosed group.
RegexRaises(pat) == \E i \in DOMAIN pat : pat[i] = "("

\* One pattern character against one character of the text, ignoring case.
CharMatches(p, c) == p = "." \/ LowerChar(p) = LowerChar(c)

\* re.search(pat, text, re.IGNORECASE) is not None
RegexSearch(pat, text) ==
    \E start \in 0..(Len(text) - Len(pat)) :
        \A j \in DOMAIN pat : CharMatches(pat[j], text[start + j])

\* The boolean mask  df[column].str.contains(pat, case=False, na=False) :
\* a row without a value in the column is not selected.
ContainsMask(frame, column, pat) ==
    [i \in DOMAIN frame.rows |->
        column \in DOMAIN frame.rows[i] /\ RegexSearch(pat, frame.rows[i][column])]

\* df[mask]: a new DataFrame of the selected rows, with the same columns.
Select(frame, mask) ==
    LET kept == { i \in DOMAIN frame.rows : mask[i] }
        RECURSIVE Upto(_)
        Upto(n) == IF n = 0 THEN << >>
                   ELSE IF n \in kept THEN Append(Upto(n - 1), frame.rows[n]) ELSE Upto(n - 1)
    IN  [rows |-> Upto(Len(frame.rows)), columns |-> frame.columns]

\* pd.DataFrame()
EmptyFrame == [rows |-> << >>, columns |-> {}]

\* What a function of the module leaves behind: its return value, the
\* caller's DataFrame after the call, the disk, the lines it printed and
\* whether an exception left it.
Effect(ret, frame, d, out, exc) ==
    [ret |-> ret, df |-> frame, disk |-> d, out |-> out, exc |-> exc]

(***************************************************************************)
(* search_deputies(df, search_term)                                        *)
(***************************************************************************)
\* search_deputies filtering the DataFrame it is given, not a copy of it:
\* the caller's DataFrame is left with the rows found.
search_deputies_inplace(frame, d, search_term) ==
    IF "nom" \in frame.columns
    THEN IF RegexRaises(search_term)
         THEN Effect(None, frame, d, << >>, TRUE)
         ELSE LET found == Select(frame, ContainsMask(frame, "nom", search_term)) IN
              Effect(Some(found), found, d,
                     << Printed("Resultats pour", 0) >> \o
                     (IF LenDf(found) > 0
                      THEN [i \in 1..LenDf(found) |-> Printed("-", i)]
                      ELSE << Printed("Aucun resultat trouve", 0) >>),
                     FALSE)
    ELSE Effect(Some(EmptyFrame), frame, d, << >>, FALSE)

search_deputies(frame, d, search_term) ==
    IF "nom" \in frame.columns
    THEN IF RegexRaises(search_term)
         THEN Effect(None, frame, d, << >>, TRUE)
         ELSE LET found == Select(frame, ContainsMask(frame, "nom", search_term)) IN
              Effect(Some(found), frame, d,
                     << Printed("Resultats pour", 0) >> \o
                     (IF LenDf(found) > 0
                      THEN [i \in 1..LenDf(found) |-> Printed("-", i)]
                      ELSE << Printed("Aucun resultat trouve", 0) >>),
                     FALSE)
    ELSE Effect(Some(EmptyFrame), frame, d, << >>, FALSE)

(***************************************************************************)
(* export_by_party(df, party_name), output_file left to its default        *)
(***************************************************************************)
\* f"deputes_{party_name.replace(' ', '_').lower()}.csv"
ExportPath(party_name) ==
    << "deputes_" >> \o
    Lower([i \in DOMAIN party_name |-> IF party_name[i] = " " THEN "_" ELSE party_name[i]]) \o
    << ".csv" >>

export_by_party(frame, d, party_name, w) ==
    IF "parti_ratt_financier" \in frame.columns
    THEN IF RegexRaises(party_name)
         THEN Effect(None, frame, d, << >>, TRUE)
         ELSE LET party_deputies == Select(frame, ContainsMask(frame, "parti_ratt_financier", party_name))
                  wr == to_csv(d, party_deputies, ExportPath(party_name), w)
              IN  IF wr.raised
                  THEN Effect(None, frame, wr.disk, << >>, TRUE)
                  ELSE Effect(Some(party_deputies), frame, wr.disk,
                              << Printed("deputes exportes", LenDf(party_deputies)) >>,
                              FALSE)
    ELSE Effect(Some(EmptyFrame), frame, d, << >>, FALSE)

(***************************************************************************)
(* analyze_deputes_data(csv_file="deputes_france.csv")                     *)
(***************************************************************************)
InputPath == << "deputes_france.csv" >>
PngPath == << "analyse_deputes.png" >>

\* pd.read_csv(csv_file, encoding='utf-8-sig'): raises when the file is
\* missing, empty or without a column name; the header gives the columns and
\* an empty cell gives a missing value.
read_csv(d, path) ==
    IF IsNone(d[path])
    THEN [raised |-> "FileNotFoundError", df |-> EmptyFrame]
    ELSE IF ~Get(d[path]).complete \/ Get(d[path]).header = {}
         THEN [raised |-> "EmptyDataError", df |-> EmptyFrame]
         ELSE LET file == Get(d[path]) IN
              [raised |-> "",
               df     |-> [rows    |-> [i \in DOMAIN file.lines |->
                                          [c \in { k \in file.header : ~IsNone(file.lines[i][k]) } |->
                                              Get(file.lines[i][c])]],
                           columns |-> file.header]]

\* Series.str.extract(r'(\d{2,3}[A-Z]?)') on one value: the leftmost run of
\* two digits, a third digit if one follows, then a capital if one follows;
\* None when the value has no two digits in a row.
ExtractDept(text) ==
    LET starts == { i \in 1..(Len(text) - 1) : IsDigit(text[i]) /\ IsDigit(text[i + 1]) } IN
    IF starts = {}
    THEN None
    ELSE LET i  == CHOOSE k \in starts : \A l \in starts : k <= l
             e1 == IF i + 2 <= Len(text) /\ IsDigit(text[i + 2]) THEN i + 2 ELSE i + 1
             e2 == IF e1 + 1 <= Len(text) /\ IsUpper(text[e1 + 1]) THEN e1 + 1 ELSE e1
         IN  Some(SubSeq(text, i, e2))

\* df[column] = values : the DataFrame itself gets the column.
SetColumn(frame, column, values) ==
    [rows    |-> [i \in DOMAIN frame.rows |->
                    [k \in (DOMAIN frame.rows[i] \ { column }) \cup
                           (IF IsNone(values[i]) THEN {} ELSE { column }) |->
                        IF k = column THEN Get(values[i]) ELSE frame.rows[i][k]]],
     columns |-> frame.columns \cup { column }]

\* df['departement'] = df['nom_circo'].str.extract(r'(\d{2,3}[A-Z]?)')
AddDepartement(frame) ==
    SetColumn(frame, "departement",
              [i \in DOMAIN frame.rows |->
                  IF "nom_circo" \in DOMAIN frame.rows[i]
                  THEN ExtractDept(frame.rows[i]["nom_circo"])
                  ELSE None])

\* The sections the analysis prints, one per column it knows.
Sections(frame) ==
    SelectSeq(<< "parti_ratt_financier", "sexe", "nom_circo", "profession", "age" >>,
              LAMBDA c : c \in frame.columns)

analyze_deputes_data(d) ==
    LET rd == read_csv(d, InputPath) IN
    IF rd.raised = "FileNotFoundError"
    THEN Effect(None, EmptyFrame, d,
                << Printed("Fichier non trouve", 0),
                   Printed("Executez d'abord le script de telechargement", 0) >>,
                FALSE)
    ELSE IF rd.raised # ""
         THEN Effect(None, EmptyFrame, d, << Printed("Erreur lors de l'analyse", 0) >>, FALSE)
         ELSE LET df0 == rd.df
                  df1 == IF "nom_circo" \in df0.columns THEN AddDepartement(df0) ELSE df0
                  sec == Sections(df0)
              IN  Effect(Some(df1), df1, d,
                         << Printed("Analyse de deputes", LenDf(df0)),
                            Printed("Nombre total de deputes", LenDf(df0)),
                            Printed("Colonnes disponibles", Cardinality(df0.columns)) >> \o
                         [i \in DOMAIN sec |-> Printed(sec[i], 0)],
                         FALSE)

(***************************************************************************)
(* create_visualizations(df): draws a chart for each column it knows and   *)
(* saves the figure; whatever is raised is caught and printed.             *)
(***************************************************************************)
PngOf(frame) ==
    [complete |-> TRUE,
     charts   |-> frame.columns \cap { "parti_ratt_financier", "sexe", "age", "profession" }]

TruncatedPng == [complete |-> FALSE, charts |-> {}]

create_visualizations(frame, d, w) ==
    LET wr == WriteFile(d, PngPath, PngOf(frame), TruncatedPng, w) IN
    IF wr.raised
    THEN Effect(None, frame, wr.disk, << Printed("Erreur lors de la creation des graphiques", 0) >>, FALSE)
    ELSE Effect(None, frame, wr.disk, << Printed("Graphiques sauves", 0) >>, FALSE)

(***************************************************************************)
(* main(): df['parti_ratt_financier'].value_counts().head(3).index, the    *)
(* values by falling count, equal counts in order of first appearance.     *)
(***************************************************************************)
TopParties(frame) ==
    LET has(i)   == "parti_ratt_financier" \in DOMAIN frame.rows[i]
        val(i)   == frame.rows[i]["parti_ratt_financier"]
        firsts   == { i \in DOMAIN frame.rows :
                        has(i) /\ \A j \in 1..(i - 1) : has(j) => val(j) # val(i) }
        count(i) == Cardinality({ j \in DOMAIN frame.rows : has(j) /\ val(j) = val(i) })
        before(i, j) == count(i) > count(j) \/ (count(i) = count(j) /\ i < j)
        rank(i)  == 1 + Cardinality({ j \in firsts : before(j, i) })
        n        == IF Cardinality(firsts) < 3 THEN Cardinality(firsts) ELSE 3
    IN  [r \in 1..n |-> val(CHOOSE i \in firsts : rank(i) = r)]

(***************************************************************************)
(* A run of main() of src/deputes_analysis_example.py.  The search term    *)
(* is any term, not only the "Macron" of the example.                      *)
(***************************************************************************)
AnalysisPaths ==
    { InputPath, PngPath } \cup
    { ExportPath(r["parti_ratt_financier"]) :
        r \in { q \in Rows : "parti_ratt_financier" \in DOMAIN q } }

\* The file to analyse is missing, empty, or a CSV file saved earlier.
AnalysisDisks ==
    { [p \in AnalysisPaths |-> IF p = InputPath THEN f ELSE None] :
        f \in { None, Some(TruncatedFile) } \cup { Some(CsvOf(fr)) : fr \in Frames } }

AnalysisInit ==
    /\ pc = "analyze"
    /\ disk \in AnalysisDisks
    /\ stdout = << >>
    /\ main_df = None
    /\ loaded = None
    /\ search = None
    /\ parties = << >>
    /\ export = None
    /\ results = << >>
    /\ log = << >>
    /\ unified = None
    /\ requests = << >>
    /\ call = None

\* df = analyze_deputes_data()
Analyze ==
    /\ pc = "analyze"
    /\ LET e  == analyze_deputes_data(disk)
           rd == read_csv(disk, InputPath)
       IN  /\ main_df' = e.ret
           /\ loaded' = IF rd.raised = "" THEN Some(rd.df) ELSE None
           /\ disk' = e.disk
           /\ stdout' = stdout \o << Printed("Analyseur des donnees des deputes francais", 0) >> \o e.out
           /\ pc' = IF e.exc THEN "crashed" ELSE IF IsNone(e.ret) THEN "fini" ELSE "visualize"
    /\ UNCHANGED << search, parties, export >>
    /\ UNCHANGED downloader

\* create_visualizations(df)
Visualize ==
    /\ pc = "visualize"
    /\ \E w \in WriteOutcomes :
          LET e == create_visualizations(Get(main_df), disk, w) IN
          /\ main_df' = Some(e.df)
          /\ disk' = e.disk
          /\ stdout' = stdout \o << Printed("Creation des graphiques", 0) >> \o e.out
          /\ pc' = IF e.exc THEN "crashed" ELSE "search"
    /\ UNCHANGED << loaded, search, parties, export >>
    /\ UNCHANGED downloader

\* search_deputies(df, term), then the parties to export.
Search ==
    /\ pc = "search"
    /\ \E term \in Terms :
          LET e == search_deputies(Get(main_df), disk, term) IN
          /\ main_df' = Some(e.df)
          /\ disk' = e.disk
          /\ search' = Some([term |-> term, ret |-> e.ret])
          /\ stdout' = stdout \o << Printed("EXEMPLES DE RECHERCHE", 0) >> \o e.out
          /\ IF e.exc
             THEN pc' = "crashed" /\ UNCHANGED parties
             ELSE /\ pc' = "export"
                  /\ parties' = IF "parti_ratt_financier" \in e.df.columns
                                THEN TopParties(e.df)
                                ELSE << >>
    /\ UNCHANGED << loaded, export >>
    /\ UNCHANGED downloader

\* export_by_party(df, party) for the next party.
ExportNext ==
    /\ pc = "export"
    /\ parties # << >>
    /\ \E w \in WriteOutcomes :
          LET e == export_by_party(Get(main_df), disk, Head(parties), w) IN
          /\ main_df' = Some(e.df)
          /\ disk' = e.disk
          /\ export' = Some([party |-> Head(parties), ret |-> e.ret])
          /\ stdout' = stdout \o e.out
          /\ parties' = Tail(parties)
          /\ pc' = IF e.exc THEN "crashed" ELSE "export"
    /\ UNCHANGED << loaded, search >>
    /\ UNCHANGED downloader

\* The closing lines of main().
Finish ==
    /\ pc = "export"
    /\ parties = << >>
    /\ pc' = "fini"
    /\ stdout' = stdout \o << Printed("Analyse terminee", 0) >>
    /\ UNCHANGED << disk, main_df, loaded, search, parties, export >>
    /\ UNCHANGED downloader

AnalysisNext ==
    \/ Analyze
    \/ Visualize
    \/ Search
    \/ ExportNext
    \/ Finish

allvars == << vars, analysis >>

SpecAnalysis == AnalysisInit /\ [][AnalysisNext]_allvars

\* The runs of either script.
SpecPrograms == (Init \/ AnalysisInit) /\ [][Next \/ AnalysisNext]_allvars

(***************************************************************************)
(* Vocabulary of the properties                                            *)
(***************************************************************************)
\* A download call has returned and download_all_sources has not yet
\* reached its summary: `call` tells what that call met.
Returned == ~IsNone(call)
ReturnedFrom(source) == Returned /\ Get(call).source = source

\* download_all_sources has made its last download call.
FetchAllOver == pc \in { "resume", "compare", "unify", "report", "done" }

Present(dict, source) == source \in DOMAIN dict /\ ~IsNone(dict[source])

\* Shapes of a response.
HasKey(resp) == resp.kind = "ok" /\ "deputes" \in DOMAIN resp.data
MissingKey(resp) == resp.kind = "ok" /\ "deputes" \notin DOMAIN resp.data
WellFormed(resp) ==
    /\ HasKey(resp)
    /\ \A i \in DOMAIN resp.data["deputes"] : "depute" \in DOMAIN resp.data["deputes"][i]
HasBadEntry(resp) ==
    /\ HasKey(resp)
    /\ \E i \in DOMAIN resp.data["deputes"] : "depute" \notin DOMAIN resp.data["deputes"][i]

\* The file is a complete CSV with the DataFrame's columns as header and one
\* line per row, each cell the row's value or empty.
IsCsv(file) == "header" \in DOMAIN file
HoldsDataset(file, df) ==
    /\ ~IsNone(file)
    /\ IsCsv(Get(file))
    /\ Get(file).complete
    /\ Get(file).header = df.columns
    /\ Len(Get(file).lines) = Len(df.rows)
    /\ \A i \in 1..Len(df.rows) : \A c \in df.columns :
          Get(file).lines[i][c] = IF c \in DOMAIN df.rows[i] THEN << df.rows[i][c] >> ELSE << >>

\* The result of the first source of the registry that has one.
FirstPresent(dict) ==
    LET present == { i \in 1..Len(Registry) : Present(dict, Registry[i]) } IN
    IF present = {}
    THEN None
    ELSE dict[Registry[CHOOSE i \in present : \A j \in present : i <= j]]

AllAbsent == DOMAIN results = Sources /\ \A s \in Sources : IsNone(results[s])

(***************************************************************************)
(* C1.  create_unified_dataset returns the Dataset of the first source, in *)
(* registry order, whose result is present (None when none is), and the    *)
(* unified artifact holds that Dataset's rows.                             *)
(***************************************************************************)
C1_SelectsFirstPresent ==
    pc \in { "report", "done" } =>
        /\ unified = FirstPresent(results)
        /\ ~IsNone(FirstPresent(results)) =>
              HoldsDataset(disk[UnifiedPath], Get(FirstPresent(results)))

(***************************************************************************)
(* C2.  download_all_sources requests every source once, in registry       *)
(* order, and returns a dict with an entry for each; the entry of a source *)
(* is decided by what its own call met, and no later call changes it.      *)
(***************************************************************************)
\* What the call for a source returns, read off its own response and write.
OwnResult(c) ==
    LET coll == c.response.data["deputes"] IN
    IF c.source = "datan"
    THEN IF HasKey(c.response) /\ c.write = "ok"
         THEN << [rows |-> coll, columns |-> UNION { DOMAIN coll[i] : i \in DOMAIN coll }] >>
         ELSE << >>
    ELSE IF WellFormed(c.response) /\ c.write = "ok"
         THEN << [rows    |-> [i \in DOMAIN coll |-> coll[i]["depute"]],
                  columns |-> UNION { DOMAIN coll[i]["depute"] : i \in DOMAIN coll }] >>
         ELSE << >>

C2_InOrder ==
    /\ Len(requests) <= Len(Registry)
    /\ \A i \in DOMAIN requests : requests[i] = Registry[i]
    /\ DOMAIN results = { requests[i] : i \in DOMAIN requests }
    /\ FetchAllOver => DOMAIN results = Sources
    /\ Returned => results[Get(call).source] = OwnResult(Get(call))

C2_EarlierKept ==
    \A s \in DOMAIN results : s \in DOMAIN results' /\ results'[s] = results[s]

C2_FetchAllIndependent == []C2_InOrder /\ [][C2_EarlierKept]_vars

\* An earlier source failed and a later one succeeded, and the reverse.
C2_Witness ==
    /\ pc = "resume"
    /\ IsNone(results["nosdeputes_csv"])
    /\ ~IsNone(results["nosdeputes_json"])
    /\ IsNone(results["datan"])
    /\ ~IsNone(results["assemblee_officiel"])

(***************************************************************************)
(* C3.  Whatever goes wrong in a download call (network error, error       *)
(* status, body that is not JSON, missing 'deputes' key, entry without the *)
(* 'depute' key), the call returns None and raises nothing.                *)
(***************************************************************************)
FailureMode(resp) == resp.kind # "ok" \/ MissingKey(resp) \/ HasBadEntry(resp)

\* An exception left a download call and so ended the run.
DownloadRaised == pc = "crashed" /\ Returned

C3_FailuresReturnAbsent ==
    /\ ~DownloadRaised
    /\ Returned /\ FailureMode(Get(call).response) => IsNone(results[Get(call).source])

(***************************************************************************)
(* C4.  When the response of a source is well formed and only the write of *)
(* its CSV file fails, the dict still holds the source's DataFrame.        *)
(***************************************************************************)
WritesCsv(source) == source \in { "nosdeputes_csv", "datan", "assemblee_officiel" }
WriteFailed(c) == c.write \in { "error_unchanged", "error_truncated" }

C4_WriteFailureKeepsResult ==
    Returned /\ WritesCsv(Get(call).source) /\ WellFormed(Get(call).response)
             /\ WriteFailed(Get(call))
        => ~IsNone(results[Get(call).source])

(***************************************************************************)
(* C5.  When every source's result is None the run goes on to its end      *)
(* without an exception: create_unified_dataset returns None, the unified  *)
(* file is left as it was, and main prints the failure line.               *)
(***************************************************************************)
FailureLine == Printed("Echec du telechargement depuis toutes les sources", 0)

C5_AllAbsentEndsCleanly ==
    AllAbsent =>
        /\ pc # "crashed"
        /\ pc # "done" => ENABLED Next
        /\ pc \in { "report", "done" } => IsNone(unified)
        /\ disk[UnifiedPath] \in { d[UnifiedPath] : d \in InitialDisks }
        /\ pc = "done" => stdout[Len(stdout)] = FailureLine

C5_Witness == AllAbsent /\ pc = "done" /\ stdout[Len(stdout)] = FailureLine

(***************************************************************************)
(* C6 as written: a download call leaves every file as it was.             *)
(***************************************************************************)
C6_NothingStep == pc \in Sources => disk' = disk

C6_FetchWritesNothing == [][C6_NothingStep]_vars

(***************************************************************************)
(* C6, amended.  A download call writes no file but the one of its own     *)
(* source, and no file at all when the request fails or the body is not    *)
(* JSON.                                                                   *)
(***************************************************************************)
C6_OwnFileOnlyStep ==
    pc \in Sources =>
        /\ \A p \in DOMAIN disk : p # PathOf(pc) => disk'[p] = disk[p]
        /\ Get(call').response.kind # "ok" => disk' = disk

C6_FetchWritesOwnFileOnly == [][C6_OwnFileOnlyStep]_vars

\* A call has written the file of its source over what an earlier run left.
C6_Witness ==
    /\ ReturnedFrom("datan")
    /\ Get(call).write = "ok"
    /\ LenDf(Get(results["datan"])) = 2
    /\ HoldsDataset(disk[PathOf("datan")], Get(results["datan"]))
    /\ disk[PathOf("assemblee_officiel")] = Some(StaleCsv)

(***************************************************************************)
(* C7 as written: once download_all_sources is over, every source with a   *)
(* DataFrame has a CSV file of it at its own path, and no two paths are    *)
(* the same.                                                               *)
(***************************************************************************)
PathsDistinct ==
    /\ \A s, t \in Sources : s # t => PathOf(s) # PathOf(t)
    /\ \A s \in Sources : PathOf(s) # UnifiedPath

C7_EveryPresentHasCsv ==
    FetchAllOver =>
        /\ \A s \in Sources :
              Present(results, s) => HoldsDataset(disk[PathOf(s)], Get(results[s]))
        /\ PathsDistinct

(***************************************************************************)
(* C7, amended.  Once download_all_sources is over, every source but       *)
(* nosdeputes_json that has a DataFrame has a CSV file of it at its own    *)
(* path; nosdeputes_json, when it has a DataFrame, has at its path the     *)
(* JSON document the DataFrame was flattened from; no two paths are the    *)
(* same.                                                                   *)
(***************************************************************************)
HoldsJsonOf(file, df) ==
    /\ ~IsNone(file)
    /\ "data" \in DOMAIN Get(file)
    /\ Get(file).complete
    /\ "deputes" \in DOMAIN Get(file).data
    /\ df.rows = [i \in DOMAIN Get(file).data["deputes"] |-> Get(file).data["deputes"][i]["depute"]]

C7_PresentHasOwnArtifact ==
    FetchAllOver =>
        /\ \A s \in Sources :
              Present(results, s) =>
                  IF s = "nosdeputes_json"
                  THEN HoldsJsonOf(disk[PathOf(s)], Get(results[s]))
                  ELSE HoldsDataset(disk[PathOf(s)], Get(results[s]))
        /\ PathsDistinct

C7_Witness ==
    /\ pc = "resume"
    /\ \A s \in Sources : Present(results, s) /\ LenDf(Get(results[s])) = 2
    /\ HoldsJsonOf(disk[PathOf("nosdeputes_json")], Get(results["nosdeputes_json"]))

(***************************************************************************)
(* C8.  A parsed response without the 'deputes' key gives None, raises     *)
(* nothing, and a warning or an error is logged for the source.            *)
(***************************************************************************)
Diagnosed(source) ==
    \E i \in DOMAIN log : log[i].source = source /\ log[i].level \in { "WARNING", "ERROR" }

C8_MissingKeyIsDiagnosed ==
    /\ ~DownloadRaised
    /\ Returned /\ MissingKey(Get(call).response) =>
          /\ IsNone(results[Get(call).source])
          /\ Diagnosed(Get(call).source)

(***************************************************************************)
(* C9.  A well-formed response (written without error) gives a DataFrame   *)
(* with one row per entry of the collection, in its order, each row the    *)
(* nested 'depute' object of its entry, and the columns are the keys of    *)
(* those nested objects.                                                   *)
(***************************************************************************)
C9_WellFormedYieldsFlattened ==
    Returned /\ WellFormed(Get(call).response) /\ Get(call).write = "ok" =>
        LET coll == Get(call).response.data["deputes"]
            res  == results[Get(call).source]
        IN  /\ ~IsNone(res)
            /\ LenDf(Get(res)) = Len(coll)
            /\ \A i \in DOMAIN coll : Get(res).rows[i] = coll[i]["depute"]
            /\ Get(res).columns = UNION { DOMAIN coll[i]["depute"] : i \in DOMAIN coll }

(***************************************************************************)
(* C10.  When an entry of the collection has no 'depute' key, the call     *)
(* returns None and writes no CSV file.                                    *)
(***************************************************************************)
C10_BadEntryStep ==
    pc \in Sources /\ HasBadEntry(Get(call').response) =>
        /\ IsNone(results'[pc])
        /\ \A p \in DOMAIN disk : p # PathOf("nosdeputes_json") => disk'[p] = disk[p]

C10_BadEntryDiscardsAll == [][C10_BadEntryStep]_vars

(***************************************************************************)
(* C11.  In one run every source goes NotAttempted -> Succeeded or Failed  *)
(* (the download call itself is the Fetching step): it starts              *)
(* NotAttempted, its endpoint is requested at most once, and once it has   *)
(* Succeeded or Failed neither its state nor its entry of results changes  *)
(* again, the summary, compare_sources and create_unified_dataset          *)
(* included.                                                               *)
(***************************************************************************)
Status(source) ==
    IF source \notin DOMAIN results
    THEN "NotAttempted"
    ELSE IF IsNone(results[source]) THEN "Failed" ELSE "Succeeded"

RequestCount(source) == Cardinality({ i \in DOMAIN requests : requests[i] = source })

C11_OneRequest ==
    /\ pc = "start" => \A s \in Sources : Status(s) = "NotAttempted"
    /\ \A s \in Sources :
          /\ RequestCount(s) <= 1
          /\ Status(s) # "NotAttempted" <=> RequestCount(s) = 1

C11_TerminalStep ==
    \A s \in Sources :
        /\ Status(s) # "NotAttempted" =>
              /\ s \in DOMAIN results'
              /\ results'[s] = results[s]
              /\ RequestCount(s)' = RequestCount(s)
        /\ Status(s) = "NotAttempted" /\ Status(s)' # "NotAttempted" =>
              /\ pc = s
              /\ requests' = Append(requests, s)

C11_SourceStateMachine == []C11_OneRequest /\ [][C11_TerminalStep]_vars

\* A finished run with a source that failed and sources that succeeded.
C11_Witness ==
    /\ pc = "done"
    /\ Status("nosdeputes_csv") = "Succeeded"
    /\ Status("nosdeputes_json") = "Failed"
    /\ Status("datan") = "Succeeded"
    /\ Status("assemblee_officiel") = "Failed"
    /\ requests = Registry

(***************************************************************************)
(* C12 as written: no operation that receives a Dataset or the results     *)
(* mapping changes it: compare_sources and create_unified_dataset leave    *)
(* results as it was, the DataFrame the analysis holds is at every moment  *)
(* the DataFrame as it was loaded, and what is returned is a copy or a     *)
(* subset.                                                                 *)
(***************************************************************************)
RECURSIVE IsSubsequence(_, _)
IsSubsequence(part, whole) ==
    \/ part = << >>
    \/ /\ whole # << >>
       /\ \/ Head(part) = Head(whole) /\ IsSubsequence(Tail(part), Tail(whole))
          \/ IsSubsequence(part, Tail(whole))

\* A DataFrame made of rows of another, in their order, with no column of
\* its own.
DerivedFrom(part, whole) ==
    /\ part.columns \subseteq whole.columns
    /\ IsSubsequence(part.rows, whole.rows)

C12_InputKeptStep ==
    /\ pc \in { "compare", "unify" } => results' = results
    /\ pc \in { "visualize", "search", "export" } => main_df' = main_df

C12_DerivedOnly ==
    /\ ~IsNone(unified) => Get(unified) = Get(results["nosdeputes_csv"])
    /\ ~IsNone(search) /\ ~IsNone(Get(search).ret) =>
          DerivedFrom(Get(Get(search).ret), Get(main_df))
    /\ ~IsNone(export) /\ ~IsNone(Get(export).ret) =>
          DerivedFrom(Get(Get(export).ret), Get(main_df))

C12_AsLoaded == ~IsNone(main_df) => main_df = loaded

C12_NeverMutated ==
    [](C12_DerivedOnly /\ C12_AsLoaded) /\ [][C12_InputKeptStep]_allvars

(***************************************************************************)
(* C12, amended.  compare_sources, create_unified_dataset,                 *)
(* create_visualizations, search_deputies and export_by_party leave what   *)
(* they receive as it was and return copies or subsets.  The analysis      *)
(* step changes the DataFrame it loaded when it has a 'nom_circo' column:  *)
(* it gains a 'departement' column, with the same rows in the same order   *)
(* and every other field as loaded; without that column it is as loaded.   *)
(***************************************************************************)
GainsColumnOnly(before, after, column) ==
    /\ after.columns = before.columns \cup { column }
    /\ Len(after.rows) = Len(before.rows)
    /\ \A i \in DOMAIN before.rows :
          /\ DOMAIN after.rows[i] \ { column } = DOMAIN before.rows[i] \ { column }
          /\ \A k \in DOMAIN before.rows[i] \ { column } :
                after.rows[i][k] = before.rows[i][k]

C12_DepartementOnly ==
    ~IsNone(main_df) =>
        IF "nom_circo" \in Get(loaded).columns
        THEN /\ GainsColumnOnly(Get(loaded), Get(main_df), "departement")
             /\ main_df # loaded
        ELSE main_df = loaded

C12_OnlyAnalysisAddsColumn ==
    [](C12_DerivedOnly /\ C12_DepartementOnly) /\ [][C12_InputKeptStep]_allvars

\* A finished analysis whose DataFrame gained the column, and whose export
\* returned some of its rows and not all.
C12_Witness ==
    /\ pc = "fini"
    /\ ~IsNone(main_df)
    /\ "departement" \in Get(main_df).columns
    /\ "departement" \notin Get(loaded).columns
    /\ ~IsNone(search)
    /\ ~IsNone(export)
    /\ LenDf(Get(Get(export).ret)) = 1
    /\ LenDf(Get(main_df)) = 2

(***************************************************************************)
(* C13.  search_deputies returns the rows, in their order, whose 'nom'     *)
(* holds the search term as a substring, whatever the case of the          *)
(* letters; a row without 'nom' is left out, and no row at all comes back  *)
(* when none holds the term or the DataFrame has no 'nom' column.          *)
(***************************************************************************)
\* text holds needle as a substring, the case of the letters aside.
ContainsIgnoringCase(text, needle) ==
    \E i \in 0..(Len(text) - Len(needle)) :
        \A j \in 1..Len(needle) : LowerChar(text[i + j]) = LowerChar(needle[j])

RECURSIVE RowsHolding(_, _)
RowsHolding(rows, needle) ==
    IF rows = << >>
    THEN << >>
    ELSE LET rest == RowsHolding(Tail(rows), needle) IN
         IF "nom" \in DOMAIN Head(rows) /\ ContainsIgnoringCase(Head(rows)["nom"], needle)
         THEN << Head(rows) >> \o rest
         ELSE rest

C13_SearchReturnsSubstringMatches ==
    ~IsNone(search) =>
        /\ ~IsNone(Get(search).ret)
        /\ Get(Get(search).ret).rows = RowsHolding(Get(main_df).rows, Get(search).term)
====
